---- MODULE Spec2Model ----
(***************************************************************************)
(* Model of go-steam-auth (package gosteamauth): the SteamAuther with its  *)
(* three operations GetAuthUrl, ValidateCallback and GetSteamUser.         *)
(*                                                                         *)
(* A Go string is a sequence of tokens.  A token is either one character  *)
(* that net/url escapes ('/', ':', '&', '=', '%', '+', '?', ' ') or a run  *)
(* of unreserved characters (letters, digits, '.', '_', '-'), written as   *)
(* one TLA+ string.  "" is << >>.  url.Values is a function from the keys  *)
(* that are present to the list of their values.                           *)
(***************************************************************************)
EXTENDS Integers, Sequences, FiniteSets, TLC

VARIABLES
    sa,       \* the SteamAuther built by New: [apiKey, realm]
    pc,       \* per caller: "idle", "post" (blocked in http.Post/ReadAll),
              \*             "get" (blocked in http.Get), "done"
    op,       \* per caller: the operation it is in ("none" when idle)
    arg,      \* per caller: the string argument (returnUrl or steamid64)
    vals,     \* per caller: the url.Values object the caller handed over
    vals0,    \* per caller: that mapping as it was when the call started
    sent,     \* per caller: the requests this call has sent, in order
    ans,      \* per caller: the answer this call received from the network
    body,     \* per caller: state of res.Body: "none", "open", "closed"
    ret,      \* per caller: what the call returned: [val, user, err]
    prev,     \* per caller: the outcome of its previous ValidateCallback call
              \*             with the mapping it still holds
    h         \* per caller: the locals of the /auth/callback handler it runs

\* the variables of one call of an operation
call == <<pc, op, arg, vals, vals0, sent, ans, body, ret>>

vars == <<sa, pc, op, arg, vals, vals0, sent, ans, body, ret, prev, h>>

(***************************************************************************)
(* Bounds of the model.                                                    *)
(***************************************************************************)
\* longest generated string (claimed_id, return URL), in tokens
MaxLen == 3

(***************************************************************************)
(* Strings.                                                                *)
(***************************************************************************)
Empty == << >>

\* the tokens the generated strings are made of: the path separator, an
\* unreserved run, and the pair separator of a form-encoded body
Chars == {"/", "7", "&"}

Strings(n) == UNION {[1..k -> Chars] : k \in 0..n}

RECURSIVE Concat(_)
Concat(ss) == IF ss = << >> THEN << >> ELSE Head(ss) \o Concat(Tail(ss))

\* index of the first occurrence of token c in s, 0 when there is none
RECURSIVE IndexFrom(_, _, _)
IndexFrom(s, c, i) ==
    IF i > Len(s) THEN 0
    ELSE IF s[i] = c THEN i
    ELSE IndexFrom(s, c, i + 1)

Index(s, c) == IndexFrom(s, c, 1)

\* strings.Contains(s, substr)
Contains(s, substr) ==
    \E i \in 0..(Len(s) - Len(substr)) : SubSeq(s, i + 1, i + Len(substr)) = substr

\* strings.Split(s, sep) for a one-character separator: the pieces between
\* the separators, always at least one piece
RECURSIVE Split(_, _)
Split(s, sep) ==
    LET i == Index(s, sep)
    IN  IF i = 0 THEN <<s>>
        ELSE <<SubSeq(s, 1, i - 1)>> \o Split(SubSeq(s, i + 1, Len(s)), sep)

(***************************************************************************)
(* net/url: escaping, url.Values, url.URL.                                 *)
(***************************************************************************)
\* the characters QueryEscape replaces by %XX, with their two hex digits
Hex == [c \in {"/", ":", "&", "=", "%", "+", "?"} |->
          CASE c = "/" -> <<"2", "F">>
            [] c = ":" -> <<"3", "A">>
            [] c = "&" -> <<"2", "6">>
            [] c = "=" -> <<"3", "D">>
            [] c = "%" -> <<"2", "5">>
            [] c = "+" -> <<"2", "B">>
            [] c = "?" -> <<"3", "F">>]

EscapeToken(c) ==
    IF c = " " THEN <<"+">>
    ELSE IF c \in DOMAIN Hex THEN <<"%">> \o Hex[c]
    ELSE <<c>>

\* url.QueryEscape
QueryEscape(s) == Concat([i \in 1..Len(s) |-> EscapeToken(s[i])])

\* url.QueryUnescape: [ok, s]; a '%' that two hex digits do not follow is
\* an error
RECURSIVE QueryUnescape(_)
QueryUnescape(s) ==
    IF s = << >> THEN [ok |-> TRUE, s |-> << >>]
    ELSE IF Head(s) = "%" THEN
        IF Len(s) < 3 \/ ~\E c \in DOMAIN Hex : Hex[c] = <<s[2], s[3]>>
        THEN [ok |-> FALSE, s |-> << >>]
        ELSE LET c == CHOOSE x \in DOMAIN Hex : Hex[x] = <<s[2], s[3]>>
                 r == QueryUnescape(SubSeq(s, 4, Len(s)))
             IN  [ok |-> r.ok, s |-> <<c>> \o r.s]
    ELSE LET r == QueryUnescape(Tail(s))
         IN  [ok |-> r.ok, s |-> <<IF Head(s) = "+" THEN " " ELSE Head(s)>> \o r.s]

\* the keys of the program, in the order sort.Strings puts them
KeyOrder == << <<"key">>, <<"openid.claimed_id">>, <<"openid.identity">>,
               <<"openid.mode">>, <<"openid.ns">>, <<"openid.realm">>,
               <<"openid.return_to">>, <<"openid.sig">>, <<"steamids">> >>

NoValues == [k \in {} |-> << >>]

\* url.Values.Get: the first value of the key, "" when there is none
Get(v, key) ==
    IF key \in DOMAIN v /\ Len(v[key]) > 0 THEN v[key][1] ELSE Empty

\* a variant of Set that appends like url.Values.Add
SetAppending(v, key, value) ==
    [k \in DOMAIN v \cup {key} |->
        IF k = key THEN (IF key \in DOMAIN v THEN v[key] ELSE << >>) \o <<value>>
        ELSE v[k]]

\* url.Values.Set: the key gets the single value, replacing what it had
Set(v, key, value) ==
    [k \in DOMAIN v \cup {key} |-> IF k = key THEN <<value>> ELSE v[k]]

\* url.Values.Add
Add(v, key, value) ==
    [k \in DOMAIN v \cup {key} |->
        IF k = key THEN (IF key \in DOMAIN v THEN v[key] ELSE << >>) \o <<value>>
        ELSE v[k]]

\* the key=value pairs of one key, each preceded by '&'
RECURSIVE EncodeKey(_, _)
EncodeKey(key, values) ==
    IF values = << >> THEN << >>
    ELSE <<"&">> \o QueryEscape(key) \o <<"=">> \o QueryEscape(Head(values))
         \o EncodeKey(key, Tail(values))

RECURSIVE EncodeKeys(_, _)
EncodeKeys(v, keys) ==
    IF keys = << >> THEN << >>
    ELSE (IF Head(keys) \in DOMAIN v THEN EncodeKey(Head(keys), v[Head(keys)])
          ELSE << >>)
         \o EncodeKeys(v, Tail(keys))

\* a variant of Encode that writes keys and values unescaped
RECURSIVE EncodeKeyRaw(_, _)
EncodeKeyRaw(key, values) ==
    IF values = << >> THEN << >>
    ELSE <<"&">> \o key \o <<"=">> \o Head(values) \o EncodeKeyRaw(key, Tail(values))

RECURSIVE EncodeKeysRaw(_, _)
EncodeKeysRaw(v, keys) ==
    IF keys = << >> THEN << >>
    ELSE (IF Head(keys) \in DOMAIN v THEN EncodeKeyRaw(Head(keys), v[Head(keys)])
          ELSE << >>)
         \o EncodeKeysRaw(v, Tail(keys))

EncodeRaw(v) ==
    LET e == EncodeKeysRaw(v, KeyOrder) IN IF e = << >> THEN << >> ELSE Tail(e)

\* url.Values.Encode: "k1=v1&k2=v2", keys sorted, keys and values escaped
Encode(v) ==
    LET e == EncodeKeys(v, KeyOrder) IN IF e = << >> THEN << >> ELSE Tail(e)

\* url.ParseQuery, one pair: cut at the first '=', unescape both halves, add;
\* an empty pair or one that does not unescape is skipped
ParsePair(m, pair) ==
    LET i == Index(pair, "=")
        k == QueryUnescape(IF i = 0 THEN pair ELSE SubSeq(pair, 1, i - 1))
        x == QueryUnescape(IF i = 0 THEN << >> ELSE SubSeq(pair, i + 1, Len(pair)))
    IN  IF pair = << >> \/ ~k.ok \/ ~x.ok THEN m ELSE Add(m, k.s, x.s)

RECURSIVE ParsePairs(_, _)
ParsePairs(m, pairs) ==
    IF pairs = << >> THEN m
    ELSE ParsePairs(ParsePair(m, Head(pairs)), Tail(pairs))

\* url.ParseQuery / url.URL.Query
ParseQuery(query) == ParsePairs(NoValues, Split(query, "&"))

\* url.Parse, as far as the program uses it: what precedes the first '?'
\* and the raw query after it
URLParse(s) ==
    LET i == Index(s, "?")
    IN  IF i = 0 THEN [base |-> s, RawQuery |-> << >>]
        ELSE [base |-> SubSeq(s, 1, i - 1), RawQuery |-> SubSeq(s, i + 1, Len(s))]

\* url.URL.String
URLString(u) ==
    u.base \o (IF u.RawQuery = << >> THEN << >> ELSE <<"?">> \o u.RawQuery)

(***************************************************************************)
(* encoding/json, as far as GetSteamUser uses it.  A JSON text is the tree *)
(* it parses to; JBad is a text that is not JSON.                          *)
(***************************************************************************)
\* a JSON value is <<kind, content>>
JBad == <<"bad", << >>>>
JNull == <<"null", << >>>>
JStr(s) == <<"str", s>>
JNum(n) == <<"num", n>>
JArr(a) == <<"arr", a>>
JObj(f) == <<"obj", f>>

Kind(j) == j[1]
Content(j) == j[2]

\* the member of object o under the name, null when it has none: a missing
\* member and a null one both leave the Go field at its zero value
Member(o, name) ==
    IF name \in DOMAIN Content(o) THEN Content(o)[name] ELSE JNull

DecodeString(j) ==
    CASE Kind(j) = "str" -> [ok |-> TRUE, val |-> Content(j)]
      [] Kind(j) = "null" -> [ok |-> TRUE, val |-> Empty]
      [] OTHER -> [ok |-> FALSE, val |-> Empty]

DecodeInt(j) ==
    CASE Kind(j) = "num" -> [ok |-> TRUE, val |-> Content(j)]
      [] Kind(j) = "null" -> [ok |-> TRUE, val |-> 0]
      [] OTHER -> [ok |-> FALSE, val |-> 0]

\* the json tag of every field of SteamUser
JsonTag ==
    [SteamID |-> "steamid", PersonaName |-> "personaname",
     PersonaState |-> "personastate", ProfileUrl |-> "profileurl",
     ProfileState |-> "profilestate",
     CommunityVisibilityStatus |-> "communityvisibilitystate",
     Avatar |-> "avatar", AvatarMedium |-> "avatarmedium",
     AvatarFull |-> "avatarfull"]

\* the zero SteamUser
ZeroUser ==
    [SteamID |-> Empty, PersonaName |-> Empty, PersonaState |-> 0,
     ProfileUrl |-> Empty, ProfileState |-> 0, CommunityVisibilityStatus |-> 0,
     Avatar |-> Empty, AvatarMedium |-> Empty, AvatarFull |-> Empty]

\* decoding one element of players into a SteamUser, by the json tags
DecodeSteamUser(j) ==
    IF Kind(j) = "null" THEN [ok |-> TRUE, val |-> ZeroUser]
    ELSE IF Kind(j) # "obj" THEN [ok |-> FALSE, val |-> ZeroUser]
    ELSE
      LET id == DecodeString(Member(j, "steamid"))
          pn == DecodeString(Member(j, "personaname"))
          ps == DecodeInt(Member(j, "personastate"))
          pu == DecodeString(Member(j, "profileurl"))
          pf == DecodeInt(Member(j, "profilestate"))
          cv == DecodeInt(Member(j, "communityvisibilitystate"))
          av == DecodeString(Member(j, "avatar"))
          am == DecodeString(Member(j, "avatarmedium"))
          af == DecodeString(Member(j, "avatarfull"))
      IN  [ok |-> id.ok /\ pn.ok /\ ps.ok /\ pu.ok /\ pf.ok /\ cv.ok
                  /\ av.ok /\ am.ok /\ af.ok,
           val |-> [SteamID |-> id.val, PersonaName |-> pn.val,
                    PersonaState |-> ps.val, ProfileUrl |-> pu.val,
                    ProfileState |-> pf.val, CommunityVisibilityStatus |-> cv.val,
                    Avatar |-> av.val, AvatarMedium |-> am.val,
                    AvatarFull |-> af.val]]

\* decoding the players member into []SteamUser
DecodePlayers(j) ==
    CASE Kind(j) = "arr" ->
           [ok |-> \A i \in 1..Len(Content(j)) : DecodeSteamUser(Content(j)[i]).ok,
            val |-> [i \in 1..Len(Content(j)) |-> DecodeSteamUser(Content(j)[i]).val]]
      [] Kind(j) = "null" -> [ok |-> TRUE, val |-> << >>]
      [] OTHER -> [ok |-> FALSE, val |-> << >>]

\* decoding the response member into struct{Players}
DecodeResponse(j) ==
    CASE Kind(j) = "obj" -> DecodePlayers(Member(j, "players"))
      [] Kind(j) = "null" -> [ok |-> TRUE, val |-> << >>]
      [] OTHER -> [ok |-> FALSE, val |-> << >>]

\* json.NewDecoder(res.Body).Decode(&data): [ok, val], val being
\* data.Response.Players; a type mismatch anywhere is reported as an error
Decode(j) ==
    CASE Kind(j) = "obj" -> DecodeResponse(Member(j, "response"))
      [] Kind(j) = "null" -> [ok |-> TRUE, val |-> << >>]
      [] OTHER -> [ok |-> FALSE, val |-> << >>]

(***************************************************************************)
(* The program's constants.                                                *)
(***************************************************************************)
OpenIdLoginUrl ==
    <<"https", ":", "/", "/", "steamcommunity.com", "/", "openid", "/", "login">>

PlayerSummariesUrl ==
    <<"http", ":", "/", "/", "api.steampowered.com", "/", "ISteamUser", "/",
      "GetPlayerSummaries", "/", "v0002">>

OpenIdNs == <<"http", ":", "/", "/", "specs.openid.net", "/", "auth", "/", "2.0">>

IdentifierSelect == OpenIdNs \o <<"/", "identifier_select">>

FormContentType == <<"application", "/", "x-www-form-urlencoded">>

IsValidTrue == <<"is_valid", ":", "true">>

KeyNs == <<"openid.ns">>
KeyMode == <<"openid.mode">>
KeyRealm == <<"openid.realm">>
KeyReturnTo == <<"openid.return_to">>
KeyClaimedId == <<"openid.claimed_id">>
KeyIdentity == <<"openid.identity">>
KeySig == <<"openid.sig">>
KeyKey == <<"key">>
KeySteamIds == <<"steamids">>

IdRes == <<"id_res">>
CheckIdSetup == <<"checkid_setup">>
CheckAuthentication == <<"check_authentication">>

StatusOK == 200

\* the error values; Nil is the nil error
Nil == "nil"
ErrMode == "the openid.mode was not expected"
ErrPostFailed == "validate callback: failed making validation request"
ErrReadAll == "validate callback: read all bytes"
ErrInvalidAuthRequest == "invalid authentication attempt"
ErrGetFailed == "get steam user: make get request"
ErrStatus == "get steam user: status code is not 200"
ErrDecode == "get steam user: decode response body"
ErrNoData == "steam did not return any data about the provided user"

\* what an operation returns: the string result, the *SteamUser (<< >> is
\* the nil pointer) and the error
Result(val, user, err) == [val |-> val, user |-> user, err |-> err]

NoResult == Result(Empty, << >>, Nil)

(***************************************************************************)
(* The network: what http.Post and http.Get can come back with.            *)
(***************************************************************************)
\* the call itself failed (err != nil): no response, no body
TransportFailure ==
    [kind |-> "fail", status |-> 0, readOk |-> FALSE, text |-> << >>, json |-> JBad]

Response(status, readOk, text, json) ==
    [kind |-> "response", status |-> status, readOk |-> readOk,
     text |-> text, json |-> json]

\* statuses other than 200 that a server answers with
OtherStatuses == {403, 404, 500}

\* bodies of the provider's answer to check_authentication
ConfirmBodies ==
    { << >>,
      <<"ns", ":">> \o OpenIdNs \o <<"\n", "is_valid", ":", "true", "\n">>,
      <<"ns", ":">> \o OpenIdNs \o <<"\n", "is_valid", ":", "false", "\n">>,
      <<"is_valid", ":", "true">>,
      <<"is_valid", ":">>,
      <<"true", "is_valid", ":", "false">> }

\* the answers to the confirmation POST: any status, a body that reads to
\* the end or breaks off
PostAnswers ==
    {TransportFailure} \cup
    {Response(st, ok, b, JBad) :
        st \in {StatusOK, 500}, ok \in BOOLEAN, b \in ConfirmBodies}

ExampleSteamId == <<"76561197960287930">>

PlayerFull ==
    JObj([steamid |-> JStr(ExampleSteamId), personaname |-> JStr(<<"gabe">>),
          personastate |-> JNum(1),
          profileurl |-> JStr(<<"https", ":", "/", "/", "steamcommunity.com", "/", "id", "/", "gabe">>),
          profilestate |-> JNum(1), communityvisibilitystate |-> JNum(3),
          avatar |-> JStr(<<"a.jpg">>), avatarmedium |-> JStr(<<"a_medium.jpg">>),
          avatarfull |-> JStr(<<"a_full.jpg">>)])

PlayerSparse ==
    JObj([steamid |-> JStr(<<"7">>), personaname |-> JNull,
          personastate |-> JNum(6), lastlogoff |-> JNum(5)])

PlayerMistyped ==
    JObj([steamid |-> JStr(<<"7">>), personastate |-> JStr(<<"online">>)])

Envelope(players) == JObj([response |-> JObj([players |-> players])])

\* bodies of the profile API's answer
ProfileBodies ==
    { JBad, JNull, JObj([error |-> JStr(<<"forbidden">>)]),
      JObj([response |-> JObj([count |-> JNum(0)])]),
      JObj([response |-> JStr(<<"x">>)]),
      Envelope(JNull), Envelope(JArr(<< >>)),
      Envelope(JArr(<<PlayerFull>>)), Envelope(JArr(<<PlayerSparse>>)),
      Envelope(JArr(<<PlayerFull, PlayerSparse>>)),
      Envelope(JArr(<<PlayerSparse, PlayerFull>>)),
      Envelope(JArr(<<PlayerMistyped>>)),
      Envelope(JArr(<<PlayerFull, PlayerMistyped>>)) }

GetAnswers ==
    {TransportFailure} \cup
    {Response(st, TRUE, << >>, j) :
        st \in {StatusOK} \cup OtherStatuses, j \in ProfileBodies}

(***************************************************************************)
(* The three operations as functions of their inputs and of the answer of  *)
(* the network.                                                            *)
(***************************************************************************)
\* New(apiKey, realm)
New(apiKey, realm) == [apiKey |-> apiKey, realm |-> realm]

\* GetAuthUrl: q.Set six times on the query of the fixed endpoint, Encode,
\* u.String().  url.Parse of the constant does not fail.
GetAuthUrlQuery(auther, returnUrl) ==
    LET u  == URLParse(OpenIdLoginUrl)
        q0 == ParseQuery(u.RawQuery)
        q1 == Set(q0, KeyNs, OpenIdNs)
        q2 == Set(q1, KeyMode, CheckIdSetup)
        q3 == Set(q2, KeyRealm, auther.realm)
        q4 == Set(q3, KeyReturnTo, returnUrl)
        q5 == Set(q4, KeyClaimedId, IdentifierSelect)
    IN  Set(q5, KeyIdentity, IdentifierSelect)

GetAuthUrlResult(auther, returnUrl) ==
    LET u == URLParse(OpenIdLoginUrl)
        w == [u EXCEPT !.RawQuery = Encode(GetAuthUrlQuery(auther, returnUrl))]
    IN  Result(URLString(w), << >>, Nil)

\* a variant of the mode check that accepts id_res anywhere in the list
ModeExpectedAnywhere(v) ==
    KeyMode \in DOMAIN v /\ \E i \in 1..Len(v[KeyMode]) : v[KeyMode][i] = IdRes

\* ValidateCallback, line 74: the mode check
ModeExpected(v) == Get(v, KeyMode) = IdRes

\* ValidateCallback, line 78: the mapping after vals.Set
ConfirmationValues(v) == Set(v, KeyMode, CheckAuthentication)

\* ValidateCallback, line 79: the request http.Post sends
ConfirmationRequest(v) ==
    [method |-> "POST", url |-> OpenIdLoginUrl, contentType |-> FormContentType,
     body |-> Encode(v)]

\* a variant that takes the first piece of claimed_id
SteamIdOfFirst(v) ==
    LET p == Split(Get(v, KeyClaimedId), "/") IN p[1]

\* ValidateCallback, lines 95-96: the last piece of claimed_id
SteamIdOf(v) ==
    LET p == Split(Get(v, KeyClaimedId), "/") IN p[Len(p)]

\* a variant that trusts any body that was read
ValidateCallbackResultUnchecked(v, a) ==
    IF a.kind = "fail" THEN Result(Empty, << >>, ErrPostFailed)
    ELSE IF ~a.readOk THEN Result(Empty, << >>, ErrReadAll)
    ELSE Result(SteamIdOf(v), << >>, Nil)

\* a variant with one error for every failure
ValidateCallbackResultOneError(v, a) ==
    IF a.kind = "fail" \/ ~a.readOk \/ ~Contains(a.text, IsValidTrue)
    THEN Result(Empty, << >>, ErrInvalidAuthRequest)
    ELSE Result(SteamIdOf(v), << >>, Nil)

\* ValidateCallback, lines 80-96: from the answer to the result; v is the
\* mapping as it is after line 78
ValidateCallbackResult(v, a) ==
    IF a.kind = "fail" THEN Result(Empty, << >>, ErrPostFailed)
    ELSE IF ~a.readOk THEN Result(Empty, << >>, ErrReadAll)
    ELSE IF ~Contains(a.text, IsValidTrue)
         THEN Result(Empty, << >>, ErrInvalidAuthRequest)
    ELSE Result(SteamIdOf(v), << >>, Nil)

\* ValidateCallback, line 83: the body is closed on return once there was a
\* response
ValidateCallbackBody(a) == IF a.kind = "fail" THEN "none" ELSE "closed"

\* GetSteamUser, lines 105-118: the request http.Get sends
ProfileRequest(auther, steamid64) ==
    LET u  == URLParse(PlayerSummariesUrl)
        q0 == ParseQuery(u.RawQuery)
        q1 == Set(q0, KeyKey, auther.apiKey)
        q2 == Set(q1, KeySteamIds, steamid64)
        w  == [u EXCEPT !.RawQuery = Encode(q2)]
    IN  [method |-> "GET", url |-> URLString(w), contentType |-> << >>,
         body |-> << >>]

\* a variant that returns the last element of players
GetSteamUserResultLast(a) ==
    IF a.kind = "fail" THEN Result(Empty, << >>, ErrGetFailed)
    ELSE IF a.status # StatusOK THEN Result(Empty, << >>, ErrStatus)
    ELSE LET data == Decode(a.json)
         IN  IF ~data.ok THEN Result(Empty, << >>, ErrDecode)
             ELSE IF Len(data.val) < 1 THEN Result(Empty, << >>, ErrNoData)
             ELSE Result(Empty, <<data.val[Len(data.val)]>>, Nil)

\* a variant that decodes before it looks at the status
GetSteamUserResultDecodeFirst(a) ==
    IF a.kind = "fail" THEN Result(Empty, << >>, ErrGetFailed)
    ELSE LET data == Decode(a.json)
         IN  IF ~data.ok THEN Result(Empty, << >>, ErrDecode)
             ELSE IF Len(data.val) >= 1 THEN Result(Empty, <<data.val[1]>>, Nil)
             ELSE IF a.status # StatusOK THEN Result(Empty, << >>, ErrStatus)
             ELSE Result(Empty, << >>, ErrNoData)

\* GetSteamUser, lines 119-140: from the answer to the result
GetSteamUserResult(a) ==
    IF a.kind = "fail" THEN Result(Empty, << >>, ErrGetFailed)
    ELSE IF a.status # StatusOK THEN Result(Empty, << >>, ErrStatus)
    ELSE LET data == Decode(a.json)
         IN  IF ~data.ok THEN Result(Empty, << >>, ErrDecode)
             ELSE IF Len(data.val) < 1 THEN Result(Empty, << >>, ErrNoData)
             ELSE Result(Empty, <<data.val[1]>>, Nil)

\* GetSteamUser never closes res.Body
GetSteamUserBody(a) == IF a.kind = "fail" THEN "none" ELSE "open"

(***************************************************************************)
(* Inputs.                                                                 *)
(***************************************************************************)
ApiKeys == { <<"KEY">>, <<"K", "+", "/", "=">> }

Realms ==
    { <<"http", ":", "/", "/", "localhost", ":", "8080">>,
      <<"https", ":", "/", "/", "a.example", "/", "?", "x", "=", "1", "&", "y", " ", "%">> }

ExampleReturnUrl ==
    <<"http", ":", "/", "/", "localhost", ":", "8080", "/", "auth", "/", "callback">>

ReturnUrls ==
    Strings(MaxLen) \cup
    { ExampleReturnUrl, <<"https", ":", "/", "/", "h", "/", "cb", "?", "a", "=", "b", " ", "c", "+", "%">> }

ExampleClaimedId ==
    <<"https", ":", "/", "/", "steamcommunity.com", "/", "openid", "/", "id", "/">>
    \o ExampleSteamId

Cancel == <<"cancel">>

\* the value lists of openid.mode; the empty list stands for an absent key
ModeLists ==
    { << >>, <<Empty>>, <<IdRes>>, <<Cancel>>, <<IdRes, Cancel>>, <<Cancel, IdRes>> }

ClaimedIdLists ==
    { << >>, <<ExampleClaimedId, <<"7">>>> } \cup
    { <<c>> : c \in Strings(MaxLen) \cup {ExampleClaimedId} }

SigLists ==
    { << >>, << <<"x", " ", "%">>, <<"&", "=", "+">> >> }

\* the mapping r.URL.Query() yields: a key is present only with at least
\* one value
Callback(mode, claimed, sig) ==
    LET l == [k \in {KeyMode, KeyClaimedId, KeySig} |->
                 IF k = KeyMode THEN mode ELSE IF k = KeyClaimedId THEN claimed ELSE sig]
    IN  [k \in {x \in DOMAIN l : l[x] # << >>} |-> l[k]]

CallbackInputs ==
    { Callback(m, c, g) : m \in ModeLists, c \in ClaimedIdLists, g \in SigLists }

SteamIds == Strings(MaxLen) \cup {ExampleSteamId}

\* the callers of the sequential specification
Callers == {1}

(***************************************************************************)
(* The state machine.                                                      *)
(***************************************************************************)
NoRequest == << >>

\* no earlier call with the mapping
NoPrev == [has |-> FALSE, sent |-> NoRequest, ans |-> TransportFailure, ret |-> NoResult]

\* the caller runs no handler
NoHandler ==
    [stage |-> "none", steamid |-> Empty, err |-> Nil, requests |-> NoRequest,
     status |-> 0, out |-> Empty]

Idle(P) ==
    /\ pc = [p \in P |-> "idle"]
    /\ op = [p \in P |-> "none"]
    /\ arg = [p \in P |-> Empty]
    /\ vals = [p \in P |-> NoValues]
    /\ vals0 = [p \in P |-> NoValues]
    /\ sent = [p \in P |-> NoRequest]
    /\ ans = [p \in P |-> TransportFailure]
    /\ body = [p \in P |-> "none"]
    /\ ret = [p \in P |-> NoResult]
    /\ prev = [p \in P |-> NoPrev]
    /\ h = [p \in P |-> NoHandler]

Init ==
    /\ sa \in {New(k, r) : k \in ApiKeys, r \in Realms}
    /\ Idle(Callers)

\* caller p calls sa.GetAuthUrl(returnUrl), which returns at once
GetAuthUrl(p, returnUrl) ==
    /\ pc[p] = "idle"
    /\ pc' = [pc EXCEPT ![p] = "done"]
    /\ op' = [op EXCEPT ![p] = "GetAuthUrl"]
    /\ arg' = [arg EXCEPT ![p] = returnUrl]
    /\ ret' = [ret EXCEPT ![p] = GetAuthUrlResult(sa, returnUrl)]
    /\ UNCHANGED <<sa, vals, vals0, sent, ans, body>>

\* caller p calls sa.ValidateCallback(v): lines 74-79, up to the point where
\* http.Post has sent the request and waits
ValidateCallbackCall(p, v) ==
    /\ pc[p] = "idle"
    /\ op' = [op EXCEPT ![p] = "ValidateCallback"]
    /\ vals0' = [vals0 EXCEPT ![p] = v]
    /\ IF ~ModeExpected(v)
       THEN /\ pc' = [pc EXCEPT ![p] = "done"]
            /\ vals' = [vals EXCEPT ![p] = v]
            /\ ret' = [ret EXCEPT ![p] = Result(Empty, << >>, ErrMode)]
            /\ UNCHANGED sent
       ELSE /\ pc' = [pc EXCEPT ![p] = "post"]
            /\ vals' = [vals EXCEPT ![p] = ConfirmationValues(v)]
            /\ sent' = [sent EXCEPT ![p] =
                           Append(@, ConfirmationRequest(ConfirmationValues(v)))]
            /\ UNCHANGED ret
    /\ UNCHANGED <<sa, arg, ans, body>>

\* a variant that posts once more after a transport failure
ValidateCallbackRetrying(p, a) ==
    /\ pc[p] = "post"
    /\ ans' = [ans EXCEPT ![p] = a]
    /\ IF a.kind = "fail" /\ Len(sent[p]) < 2
       THEN /\ sent' = [sent EXCEPT ![p] = Append(@, ConfirmationRequest(vals[p]))]
            /\ UNCHANGED <<pc, body, ret>>
       ELSE /\ pc' = [pc EXCEPT ![p] = "done"]
            /\ body' = [body EXCEPT ![p] = ValidateCallbackBody(a)]
            /\ ret' = [ret EXCEPT ![p] = ValidateCallbackResult(vals[p], a)]
            /\ UNCHANGED sent
    /\ UNCHANGED <<sa, op, arg, vals, vals0>>

\* a variant in which the SteamAuther keeps the mapping of the latest call
\* in a field of its own and the return path reads it from there
ValidateCallbackReturnShared(p, a) ==
    LET latest == CHOOSE q \in DOMAIN pc :
                      /\ pc[q] = "post"
                      /\ \A r \in DOMAIN pc : pc[r] = "post" => r <= q
    IN  /\ pc[p] = "post"
        /\ pc' = [pc EXCEPT ![p] = "done"]
        /\ ans' = [ans EXCEPT ![p] = a]
        /\ body' = [body EXCEPT ![p] = ValidateCallbackBody(a)]
        /\ ret' = [ret EXCEPT ![p] = ValidateCallbackResult(vals[latest], a)]
        /\ UNCHANGED <<sa, op, arg, vals, vals0, sent>>

\* http.Post comes back with answer a: lines 80-96
ValidateCallbackReturn(p, a) ==
    /\ pc[p] = "post"
    /\ pc' = [pc EXCEPT ![p] = "done"]
    /\ ans' = [ans EXCEPT ![p] = a]
    /\ body' = [body EXCEPT ![p] = ValidateCallbackBody(a)]
    /\ ret' = [ret EXCEPT ![p] = ValidateCallbackResult(vals[p], a)]
    /\ UNCHANGED <<sa, op, arg, vals, vals0, sent>>

\* caller p calls sa.GetSteamUser(steamid64): lines 105-118, up to the point
\* where http.Get has sent the request and waits
GetSteamUserCall(p, steamid64) ==
    /\ pc[p] = "idle"
    /\ pc' = [pc EXCEPT ![p] = "get"]
    /\ op' = [op EXCEPT ![p] = "GetSteamUser"]
    /\ arg' = [arg EXCEPT ![p] = steamid64]
    /\ sent' = [sent EXCEPT ![p] = Append(@, ProfileRequest(sa, steamid64))]
    /\ UNCHANGED <<sa, vals, vals0, ans, body, ret>>

\* http.Get comes back with answer a: lines 119-140
GetSteamUserReturn(p, a) ==
    /\ pc[p] = "get"
    /\ pc' = [pc EXCEPT ![p] = "done"]
    /\ ans' = [ans EXCEPT ![p] = a]
    /\ body' = [body EXCEPT ![p] = GetSteamUserBody(a)]
    /\ ret' = [ret EXCEPT ![p] = GetSteamUserResult(a)]
    /\ UNCHANGED <<sa, op, arg, vals, vals0, sent>>

\* the caller has its result and goes on; the call's locals are gone
CallerReturns(p) ==
    /\ pc[p] = "done"
    /\ pc' = [pc EXCEPT ![p] = "idle"]
    /\ op' = [op EXCEPT ![p] = "none"]
    /\ arg' = [arg EXCEPT ![p] = Empty]
    /\ vals' = [vals EXCEPT ![p] = NoValues]
    /\ vals0' = [vals0 EXCEPT ![p] = NoValues]
    /\ sent' = [sent EXCEPT ![p] = NoRequest]
    /\ ans' = [ans EXCEPT ![p] = TransportFailure]
    /\ body' = [body EXCEPT ![p] = "none"]
    /\ ret' = [ret EXCEPT ![p] = NoResult]
    /\ UNCHANGED sa

\* the caller calls sa.ValidateCallback once more with the mapping it
\* passed before, which is the object the first call worked on: lines 74-79
ValidateCallbackAgain(p) ==
    /\ pc[p] = "done"
    /\ op[p] = "ValidateCallback"
    /\ ~prev[p].has
    /\ prev' = [prev EXCEPT ![p] =
                    [has |-> TRUE, sent |-> sent[p], ans |-> ans[p], ret |-> ret[p]]]
    /\ vals0' = [vals0 EXCEPT ![p] = vals[p]]
    /\ ans' = [ans EXCEPT ![p] = TransportFailure]
    /\ body' = [body EXCEPT ![p] = "none"]
    /\ IF ~ModeExpected(vals[p])
       THEN /\ ret' = [ret EXCEPT ![p] = Result(Empty, << >>, ErrMode)]
            /\ sent' = [sent EXCEPT ![p] = NoRequest]
            /\ UNCHANGED <<pc, vals>>
       ELSE /\ pc' = [pc EXCEPT ![p] = "post"]
            /\ vals' = [vals EXCEPT ![p] = ConfirmationValues(vals[p])]
            /\ sent' = [sent EXCEPT ![p] =
                           <<ConfirmationRequest(ConfirmationValues(vals[p]))>>]
            /\ ret' = [ret EXCEPT ![p] = NoResult]
    /\ UNCHANGED <<sa, op, arg, h>>

\* the caller is through with the call and with the mapping
Finish(p) ==
    /\ CallerReturns(p)
    /\ prev' = [prev EXCEPT ![p] = NoPrev]
    /\ UNCHANGED h

Next ==
    \E p \in DOMAIN pc :
        \/ /\ h[p].stage = "none"
           /\ UNCHANGED <<prev, h>>
           /\ \/ \E r \in ReturnUrls : GetAuthUrl(p, r)
              \/ \E v \in CallbackInputs : ValidateCallbackCall(p, v)
              \/ \E a \in PostAnswers : ValidateCallbackReturn(p, a)
              \/ \E id \in SteamIds : GetSteamUserCall(p, id)
              \/ \E a \in GetAnswers : GetSteamUserReturn(p, a)
        \/ ValidateCallbackAgain(p)
        \/ Finish(p)

Spec == Init /\ [][Next]_vars

\* The steps of the program itself are taken when they can be: a goroutine
\* that can go on does.  The answer of the network is not the program's
\* step: http.Post and http.Get go through http.DefaultClient, whose
\* Timeout is zero, and the calls pass no context, so nothing in the
\* program ends the wait for an endpoint that does not answer.
SpecLive ==
    /\ Init
    /\ [][Next]_vars
    /\ \A p \in Callers : WF_vars(Finish(p)) /\ WF_vars(ValidateCallbackAgain(p))

(***************************************************************************)
(* Concurrent callers: two goroutines call the one SteamAuther, each with  *)
(* its own arguments, their steps interleaved in any order.                *)
(***************************************************************************)
ConcCallers == {1, 2}

ConcReturnUrls == { ExampleReturnUrl, <<"7", "&">> }

ConcCallbacks ==
    { Callback(<<IdRes>>, <<ExampleClaimedId>>, << >>),
      Callback(<<IdRes>>, <<<<"7", "/", "&">>>>, << <<"x", " ", "%">> >>),
      Callback(<<Cancel>>, <<ExampleClaimedId>>, << >>),
      Callback(<< >>, << >>, << >>) }

ConcPostAnswers ==
    { TransportFailure,
      Response(StatusOK, TRUE, <<"is_valid", ":", "true">>, JBad),
      Response(StatusOK, TRUE, <<"is_valid", ":", "false">>, JBad),
      Response(StatusOK, FALSE, << >>, JBad) }

ConcSteamIds == { ExampleSteamId, <<"7">> }

ConcGetAnswers ==
    { TransportFailure,
      Response(404, TRUE, << >>, Envelope(JArr(<<PlayerFull>>))),
      Response(StatusOK, TRUE, << >>, Envelope(JArr(<<PlayerFull, PlayerSparse>>))),
      Response(StatusOK, TRUE, << >>, Envelope(JArr(<<PlayerSparse>>))),
      Response(StatusOK, TRUE, << >>, Envelope(JArr(<< >>))) }

InitConc ==
    /\ sa \in {New(k, r) : k \in ApiKeys, r \in Realms}
    /\ Idle(ConcCallers)

NextConc ==
    \E p \in DOMAIN pc :
        \/ /\ UNCHANGED <<prev, h>>
           /\ \/ \E r \in ConcReturnUrls : GetAuthUrl(p, r)
              \/ \E v \in ConcCallbacks : ValidateCallbackCall(p, v)
              \/ \E a \in ConcPostAnswers : ValidateCallbackReturn(p, a)
              \/ \E id \in ConcSteamIds : GetSteamUserCall(p, id)
              \/ \E a \in ConcGetAnswers : GetSteamUserReturn(p, a)
        \/ Finish(p)

SpecConc == InitConc /\ [][NextConc]_vars

(***************************************************************************)
(* The GET /auth/callback handler of examples/auth: ValidateCallback on    *)
(* the query of the request, then GetSteamUser with what it returned.      *)
(***************************************************************************)
HandlerCallbacks ==
    { Callback(m, c, << >>) :
        m \in { <<IdRes>>, <<Cancel>>, << >> },
        c \in { << >>, <<ExampleClaimedId>>, <<<<"7", "/", "&">>>> } }

\* line 30: steamid, err := auther.ValidateCallback(r.URL.Query())
HandlerValidate(p, v) ==
    /\ h[p].stage = "none"
    /\ ValidateCallbackCall(p, v)
    /\ h' = [h EXCEPT ![p].stage = "validating"]
    /\ UNCHANGED prev

\* a variant of lines 30-34 that goes on whatever err is
HandlerChecksIdentityUnchecked(p) ==
    /\ h[p].stage = "validating"
    /\ CallerReturns(p)
    /\ h' = [h EXCEPT ![p].stage = "validated",
                      ![p].steamid = ret[p].val,
                      ![p].err = ret[p].err,
                      ![p].requests = @ \o sent[p]]
    /\ UNCHANGED prev

\* lines 30-34: ValidateCallback has returned; on an error the handler
\* prints it and returns
HandlerChecksIdentity(p) ==
    /\ h[p].stage = "validating"
    /\ CallerReturns(p)
    /\ h' = [h EXCEPT ![p].stage = IF ret[p].err # Nil THEN "returned" ELSE "validated",
                      ![p].steamid = ret[p].val,
                      ![p].err = ret[p].err,
                      ![p].requests = @ \o sent[p]]
    /\ UNCHANGED prev

\* line 36: user, err := auther.GetSteamUser(steamid)
HandlerFetch(p) ==
    /\ h[p].stage = "validated"
    /\ GetSteamUserCall(p, h[p].steamid)
    /\ h' = [h EXCEPT ![p].stage = "fetching"]
    /\ UNCHANGED prev

\* lines 36-44: GetSteamUser has returned; on an error the handler prints
\* it and returns, otherwise it writes 200 and "PersonaName - SteamID"
HandlerResponds(p) ==
    /\ h[p].stage = "fetching"
    /\ CallerReturns(p)
    /\ h' = [h EXCEPT ![p].stage = "returned",
                      ![p].err = ret[p].err,
                      ![p].requests = @ \o sent[p],
                      ![p].status = IF ret[p].err # Nil THEN 0 ELSE 200,
                      ![p].out = IF ret[p].err # Nil THEN Empty
                                 ELSE ret[p].user[1].PersonaName \o <<" ", "-", " ">>
                                      \o ret[p].user[1].SteamID]
    /\ UNCHANGED prev

\* the request is served; the next one starts with fresh locals
HandlerEnds(p) ==
    /\ h[p].stage = "returned"
    /\ h' = [h EXCEPT ![p] = NoHandler]
    /\ UNCHANGED <<sa, call, prev>>

NextHandler ==
    \E p \in DOMAIN pc :
        \/ \E v \in HandlerCallbacks : HandlerValidate(p, v)
        \/ /\ h[p].stage = "validating"
           /\ \E a \in PostAnswers : ValidateCallbackReturn(p, a)
           /\ UNCHANGED <<prev, h>>
        \/ HandlerChecksIdentity(p)
        \/ HandlerFetch(p)
        \/ /\ h[p].stage = "fetching"
           /\ \E a \in GetAnswers : GetSteamUserReturn(p, a)
           /\ UNCHANGED <<prev, h>>
        \/ HandlerResponds(p)
        \/ HandlerEnds(p)

SpecHandler == Init /\ [][NextHandler]_vars

(***************************************************************************)
(* Properties.                                                             *)
(***************************************************************************)
\* caller p is in (or has just returned from) operation o
In(p, o) == op[p] = o
Returned(p, o) == op[p] = o /\ pc[p] = "done"

\* the first value of openid.mode / openid.claimed_id the caller passed in
ModeGiven(p) == Get(vals0[p], KeyMode)
ClaimedIdGiven(p) == Get(vals0[p], KeyClaimedId)

\* the call got a response whose body was read to the end (with
\* readOk = FALSE the read broke off and the call has no body to look at)
GotBody(p) == ans[p].kind = "response" /\ ans[p].readOk

\* C1: ValidateCallback returns a nil error only if openid.mode was id_res,
\* a confirmation POST was sent in this call and the body of its response
\* contained is_valid:true; in every other outcome (mode mismatch,
\* transport failure, body-read failure, missing marker) it returns the
\* empty identifier and a non-nil error.
C1_SuccessOnlyAfterConfirmation ==
    \A p \in DOMAIN pc :
        Returned(p, "ValidateCallback") =>
            LET confirmed == /\ ModeGiven(p) = IdRes
                             /\ Len(sent[p]) = 1
                             /\ sent[p][1].method = "POST"
                             /\ GotBody(p)
                             /\ Contains(ans[p].text, IsValidTrue)
            IN  /\ ret[p].err = Nil => confirmed
                /\ ~confirmed => ret[p].err # Nil /\ ret[p].val = Empty

C1_Witness ==
    \E p \in DOMAIN pc :
        /\ Returned(p, "ValidateCallback")
        /\ ret[p].err = Nil
        /\ ret[p].val = ExampleSteamId
        /\ Len(sent[p]) = 1

\* C2: whenever openid.mode is anything but exactly id_res (cancel, empty,
\* absent, any other value), ValidateCallback fails with the
\* protocol-mismatch error at once: the call is never waiting for the
\* provider and has sent no request.
C2_ModeMismatchFailsWithoutRequest ==
    \A p \in DOMAIN pc :
        In(p, "ValidateCallback") /\ ModeGiven(p) # IdRes =>
            /\ pc[p] = "done"
            /\ ret[p].err = ErrMode
            /\ ret[p].val = Empty
            /\ sent[p] = NoRequest

C2_Witness ==
    \E p \in DOMAIN pc :
        /\ Returned(p, "ValidateCallback")
        /\ KeyMode \in DOMAIN vals0[p]
        /\ vals0[p][KeyMode] = <<Cancel, IdRes>>
        /\ ret[p].err = ErrMode
        /\ sent[p] = NoRequest

\* C3: when the confirmation POST completes and the body read from it does
\* not contain is_valid:true (a well-formed is_valid:false included),
\* ValidateCallback fails with ErrInvalidAuthRequest and the empty
\* identifier; a failure of the POST at the transport level yields another
\* error, never ErrInvalidAuthRequest.
C3_InvalidAssertionDistinctFromTransport ==
    \A p \in DOMAIN pc :
        Returned(p, "ValidateCallback") /\ sent[p] # NoRequest =>
            /\ GotBody(p) /\ ~Contains(ans[p].text, IsValidTrue) =>
                   ret[p].err = ErrInvalidAuthRequest /\ ret[p].val = Empty
            /\ ans[p].kind = "fail" =>
                   ret[p].err \notin {Nil, ErrInvalidAuthRequest}

C3_Witness ==
    \E p \in DOMAIN pc :
        /\ Returned(p, "ValidateCallback")
        /\ GotBody(p)
        /\ Contains(ans[p].text, <<"is_valid", ":", "false">>)
        /\ ret[p].err = ErrInvalidAuthRequest

\* C4: when the confirmation POST gets a non-success status,
\* ValidateCallback fails with a transport/HTTP error (neither success nor
\* ErrInvalidAuthRequest) whatever the body holds.
C4_NonSuccessStatusIsTransportError ==
    \A p \in DOMAIN pc :
        /\ Returned(p, "ValidateCallback")
        /\ ans[p].kind = "response"
        /\ ans[p].status \notin 200..299
        => ret[p].err \notin {Nil, ErrInvalidAuthRequest}

\* C5: on success ValidateCallback returns the part of the given
\* openid.claimed_id after its last '/' (all of it when it has no '/'),
\* unvalidated; the split yields at least one piece for every claimed_id.
C5_IdentifierIsLastSegment ==
    \A p \in DOMAIN pc :
        In(p, "ValidateCallback") =>
            LET c == ClaimedIdGiven(p)
                r == ret[p].val
            IN  /\ Len(Split(c, "/")) >= 1
                /\ pc[p] = "done" /\ ret[p].err = Nil =>
                     /\ \E k \in 0..Len(c) :
                            /\ r = SubSeq(c, k + 1, Len(c))
                            /\ k = 0 \/ c[k] = "/"
                     /\ \A i \in 1..Len(r) : r[i] # "/"
                     /\ c = ExampleClaimedId => r = ExampleSteamId

C5_Witness ==
    \E p \in DOMAIN pc :
        /\ Returned(p, "ValidateCallback")
        /\ ret[p].err = Nil
        /\ ClaimedIdGiven(p) = <<"7", "/", "&">>
        /\ ret[p].val = <<"&">>

\* C6: the body of the confirmation POST, parsed as a form, is the callback
\* mapping the call received with openid.mode replaced by the single value
\* check_authentication, nothing else added, dropped or changed; it goes,
\* form-encoded, to the login endpoint GetAuthUrl redirects to.
C6_ConfirmationBodyIsCallback ==
    \A p \in DOMAIN pc :
        In(p, "ValidateCallback") /\ sent[p] # NoRequest =>
            LET req == sent[p][1]
                given == vals0[p]
            IN  /\ req.method = "POST"
                /\ req.contentType = FormContentType
                /\ req.url = OpenIdLoginUrl
                /\ req.url = URLParse(GetAuthUrlResult(sa, ExampleReturnUrl).val).base
                /\ ParseQuery(req.body) =
                       [k \in DOMAIN given |->
                           IF k = KeyMode THEN <<CheckAuthentication>> ELSE given[k]]

C6_Witness ==
    \E p \in DOMAIN pc :
        /\ In(p, "ValidateCallback")
        /\ pc[p] = "post"
        /\ vals0[p] = Callback(<<IdRes, Cancel>>, <<<<"/", "&", "7">>>>,
                               << <<"x", " ", "%">>, <<"&", "=", "+">> >>)
        /\ Len(sent[p]) = 1

\* C7: in one call GetAuthUrl sends no request, ValidateCallback at most
\* one (exactly one when openid.mode is id_res) and GetSteamUser exactly
\* one; a call that returns an error has not sent a second request.
C7_RequestCount ==
    \A p \in DOMAIN pc :
        /\ In(p, "GetAuthUrl") => Len(sent[p]) = 0
        /\ In(p, "ValidateCallback") =>
               /\ Len(sent[p]) <= 1
               /\ ModeGiven(p) = IdRes => Len(sent[p]) = 1
        /\ In(p, "GetSteamUser") => Len(sent[p]) = 1
        /\ pc[p] = "done" /\ ret[p].err # Nil => Len(sent[p]) <= 1

C7_Witness ==
    \E p \in DOMAIN pc :
        /\ Returned(p, "ValidateCallback")
        /\ ans[p].kind = "fail"
        /\ ret[p].err = ErrPostFailed
        /\ Len(sent[p]) = 1

\* C8: for every return URL R and configured realm, GetAuthUrl succeeds
\* with a URL on https://steamcommunity.com/openid/login whose parsed query
\* is exactly openid.mode=checkid_setup, openid.return_to=R,
\* openid.realm=realm, openid.ns=http://specs.openid.net/auth/2.0 and
\* openid.claimed_id = openid.identity = .../identifier_select.
C8_AuthUrlParameters ==
    \A p \in DOMAIN pc :
        Returned(p, "GetAuthUrl") =>
            LET u == URLParse(ret[p].val)
                q == ParseQuery(u.RawQuery)
            IN  /\ ret[p].err = Nil
                /\ u.base = OpenIdLoginUrl
                /\ DOMAIN q = {KeyMode, KeyReturnTo, KeyRealm, KeyNs,
                               KeyClaimedId, KeyIdentity}
                /\ q[KeyMode] = <<CheckIdSetup>>
                /\ q[KeyReturnTo] = <<arg[p]>>
                /\ q[KeyRealm] = <<sa.realm>>
                /\ q[KeyNs] = <<OpenIdNs>>
                /\ q[KeyClaimedId] = <<IdentifierSelect>>
                /\ q[KeyIdentity] = <<IdentifierSelect>>

C8_Witness ==
    \E p \in DOMAIN pc :
        /\ Returned(p, "GetAuthUrl")
        /\ arg[p] = <<"&", "7", "/">>
        /\ Index(sa.realm, "?") > 0
        /\ ret[p].err = Nil

\* C9: a callback mapping without openid.claimed_id is never reported as
\* verified, and a success never carries the empty identifier.
C9_NoSuccessWithoutClaimedId ==
    \A p \in DOMAIN pc :
        Returned(p, "ValidateCallback") /\ ret[p].err = Nil =>
            /\ KeyClaimedId \in DOMAIN vals0[p]
            /\ ret[p].val # Empty

\* C10: GetSteamUser returns the unexpected-status error and no record
\* whenever the profile API answers with a status other than 200, also when
\* the body is a well-formed players envelope: it is not decoded.
C10_Non200IsStatusError ==
    \A p \in DOMAIN pc :
        /\ Returned(p, "GetSteamUser")
        /\ ans[p].kind = "response"
        /\ ans[p].status # 200
        => ret[p].err = ErrStatus /\ ret[p].user = << >>

C10_Witness ==
    \E p \in DOMAIN pc :
        /\ Returned(p, "GetSteamUser")
        /\ ans[p].status = 404
        /\ ans[p].json = Envelope(JArr(<<PlayerFull>>))
        /\ ret[p].err = ErrStatus

\* the players the profile API sent: the array under response.players,
\* nothing when a member on the way is missing or null
PlayersReceived(j) ==
    LET r  == IF Kind(j) = "obj" THEN Member(j, "response") ELSE JNull
        pl == IF Kind(r) = "obj" THEN Member(r, "players") ELSE JNull
    IN  IF Kind(pl) = "arr" THEN Content(pl) ELSE << >>

\* C11: for a 200 answer with a decodable envelope GetSteamUser fails with
\* ErrNoData and a nil record exactly when the players list is empty or
\* missing; otherwise it returns the first element of the list, every
\* documented field holding the value received (its zero value when the
\* element does not carry it), whatever elements follow.
C11_FirstPlayerOrNoData ==
    \A p \in DOMAIN pc :
        /\ Returned(p, "GetSteamUser")
        /\ ans[p].kind = "response"
        /\ ans[p].status = 200
        /\ Decode(ans[p].json).ok
        => LET players == PlayersReceived(ans[p].json)
           IN  /\ players = << >> <=> ret[p].err = ErrNoData
               /\ ret[p].err = ErrNoData => ret[p].user = << >>
               /\ players # << >> =>
                    /\ ret[p].err = Nil
                    /\ Len(ret[p].user) = 1
                    /\ \A f \in DOMAIN JsonTag :
                         LET m == Member(players[1], JsonTag[f])
                         IN  IF Kind(m) = "null"
                             THEN ret[p].user[1][f] = ZeroUser[f]
                             ELSE ret[p].user[1][f] = Content(m)

C11_Witness ==
    \E p \in DOMAIN pc :
        /\ Returned(p, "GetSteamUser")
        /\ ans[p].status = 200
        /\ ans[p].json = Envelope(JArr(<<PlayerSparse, PlayerFull>>))
        /\ ret[p].err = Nil
        /\ ret[p].user[1].SteamID = <<"7">>
        /\ ret[p].user[1].PersonaState = 6

\* C13: ValidateCallback leaves the mapping the caller passed in as it
\* was: when the call has returned, on every path, the caller's mapping has
\* the keys and values it had before the call, openid.mode included.
C13_CallerMappingUnchanged ==
    \A p \in DOMAIN pc :
        Returned(p, "ValidateCallback") => vals[p] = vals0[p]

\* C14: a second ValidateCallback call with the same callback mapping,
\* the provider answering as it did the first time, has the outcome of the
\* first call.
C14_SecondCallSameOutcome ==
    \A p \in DOMAIN pc :
        /\ Returned(p, "ValidateCallback")
        /\ prev[p].has
        /\ sent[p] # NoRequest /\ prev[p].sent # NoRequest => ans[p] = prev[p].ans
        => ret[p] = prev[p].ret

\* what the call caller p is in returns when it runs alone with the
\* arguments p passed and the answer p's request got
Alone(p) ==
    CASE op[p] = "GetAuthUrl" -> GetAuthUrlResult(sa, arg[p])
      [] op[p] = "ValidateCallback" ->
            IF Get(vals0[p], KeyMode) # IdRes
            THEN Result(Empty, << >>, ErrMode)
            ELSE ValidateCallbackResult(
                     [k \in DOMAIN vals0[p] |->
                         IF k = KeyMode THEN <<CheckAuthentication>> ELSE vals0[p][k]],
                     ans[p])
      [] op[p] = "GetSteamUser" -> GetSteamUserResult(ans[p])
      [] OTHER -> NoResult

\* the variables of caller p's call
CallOf(p) ==
    <<pc[p], op[p], arg[p], vals[p], vals0[p], sent[p], ans[p], body[p], ret[p]>>

\* C12: under any interleaving of concurrent GetAuthUrl, ValidateCallback
\* and GetSteamUser calls on one SteamAuther, each call returns what it
\* returns when run alone against the same answers, no step of one caller
\* changes anything of another caller's call, and apiKey and realm keep the
\* values New was given.
C12_NoInterference ==
    /\ [](\A p \in ConcCallers : pc[p] = "done" => ret[p] = Alone(p))
    /\ [][/\ sa' = sa
          /\ \E q \in ConcCallers :
                \A p \in ConcCallers \ {q} : CallOf(p)' = CallOf(p)]_vars

C12_Witness ==
    /\ Returned(1, "ValidateCallback")
    /\ Returned(2, "ValidateCallback")
    /\ ret[1] = Result(<<"&">>, << >>, Nil)
    /\ ret[2] = Result(ExampleSteamId, << >>, Nil)

\* the requests sent so far while caller p serves its /auth/callback
\* request
RequestsOf(p) == h[p].requests \o sent[p]

\* C15: in the callback handler GetSteamUser is invoked only after
\* ValidateCallback has returned success in the same request, and only with
\* the identifier it returned; when ValidateCallback fails the handler
\* sends no profile request and writes nothing to the response.
C15_ProfileOnlyAfterValidation ==
    \A p \in DOMAIN pc :
        LET reqs == RequestsOf(p)
            validated == h[p].stage \in {"validated", "fetching"}
                         \/ (h[p].stage = "returned" /\ Len(reqs) = 2)
        IN  /\ \A i \in 1..Len(reqs) :
                  reqs[i].method = "GET" =>
                      /\ i = 2
                      /\ reqs[1].method = "POST"
                      /\ validated
                      /\ ParseQuery(URLParse(reqs[i].url).RawQuery)[KeySteamIds]
                             = <<h[p].steamid>>
            /\ In(p, "GetSteamUser") => h[p].stage = "fetching" /\ arg[p] = h[p].steamid
            /\ h[p].stage \in {"validated", "fetching"} => h[p].err = Nil
            /\ h[p].stage = "returned" /\ Len(reqs) < 2 =>
                  /\ h[p].err # Nil
                  /\ \A i \in 1..Len(reqs) : reqs[i].method = "POST"
                  /\ h[p].status = 0 /\ h[p].out = Empty

C15_Witness ==
    \E p \in DOMAIN pc :
        /\ h[p].stage = "returned"
        /\ h[p].status = 200
        /\ h[p].steamid = ExampleSteamId
        /\ h[p].out = <<"gabe", " ", "-", " ">> \o ExampleSteamId
        /\ Len(h[p].requests) = 2

\* C16: every response ValidateCallback or GetSteamUser obtained has its
\* body closed when the operation has returned, on every return path.
C16_BodiesClosedOnReturn ==
    \A p \in DOMAIN pc : pc[p] = "done" => body[p] # "open"

\* C17: every call of ValidateCallback and GetSteamUser eventually
\* returns, with a result or an error, also when the remote endpoint never
\* answers.
C17_CallsReturn ==
    \A p \in Callers : (pc[p] \in {"post", "get"}) ~> (pc[p] = "done")

====
